---- MODULE Spec2Model ----
(***************************************************************************)
(* Travel planning workflow (travelagent): six gather agents run as the    *)
(* entry points of a state graph, their patches are merged into the shared *)
(* TravelState, consolidate_plan builds final_plan and                     *)
(* human_approval_agent asks the user to approve, reject or modify it.     *)
(*                                                                         *)
(* Strings are atomic values. An empty Python dict is the empty function.  *)
(* The text-generation chain (prompt | llm | StrOutputParser) is an        *)
(* external call: it returns one of GenOutputs or raises, which the model  *)
(* writes as the value GenerationError.                                    *)
(***************************************************************************)
EXTENDS Integers, Sequences, FiniteSets, TLC

VARIABLES
    request,      \* the user_request the driver built the initial state from
    state,        \* the shared TravelState held by the compiled graph
    pc,           \* per node: idle, pending, running, done, failed, cancelled, merged
    input,        \* per node: the state object the node was invoked with
    writes,       \* per node: the patch it returned, not merged yet
    runs,         \* per node: number of invocations
    genCalls,     \* per node: number of chain.invoke calls made
    searchCalls,  \* per node: number of mock_*_search calls made
    genFailed,    \* per node: a chain.invoke call of the node raised
    writers,      \* per state key: the nodes whose merged patch held the key
    hp,           \* locals of human_approval_agent
    status,       \* of travel_system.invoke: running, returned, failed
    result,       \* what invoke returned to main
    unit,         \* a function called on its own: its arguments and what it did
    cr            \* locals of collect_user_travel_request

vars == <<request, state, pc, input, writes, runs, genCalls, searchCalls,
          genFailed, writers, hp, status, result, unit, cr>>

----------------------------------------------------------------------------
(* Bounds and input sets *)

\* how many times the approval prompt may be answered with an invalid choice
MaxPrompts == 2

Destinations == {"Barcelona", "Dublin"}
DatesSet == {"March 15-20, 2024"}
Budgets == {"$2000"}
GenOutputs == {"Mock analysis", "Agent analysis"}
GenerationError == "GenerationError"
Feedbacks == {"add more restaurants", "  add more restaurants "}

\* what Prompt.ask may hand back for a free-text question
RawTexts == {"", "   ", "Barcelona", " Barcelona ", "March 15-20, 2024",
             "$2000 "} \cup Feedbacks

\* str.strip() on those texts
strip(raw) ==
    CASE raw = "" -> ""
      [] raw = "   " -> ""
      [] raw = "Barcelona" -> "Barcelona"
      [] raw = " Barcelona " -> "Barcelona"
      [] raw = "March 15-20, 2024" -> "March 15-20, 2024"
      [] raw = "$2000 " -> "$2000"
      [] raw = "add more restaurants" -> "add more restaurants"
      [] raw = "  add more restaurants " -> "add more restaurants"

EmptyDict == [k \in {} |-> k]

----------------------------------------------------------------------------
(* The graph built by create_parallelization_workflow *)

Gather == {"flight_search", "hotel_search", "events_search",
           "restaurant_search", "attractions_search", "social_places_search"}

Nodes == Gather \cup {"consolidate", "human_approval"}

NodeOrder == <<"flight_search", "hotel_search", "events_search",
               "restaurant_search", "attractions_search",
               "social_places_search", "consolidate", "human_approval">>

\* variant: consolidate is declared an entry point too
EntryPointsWithConsolidate == Gather \cup {"consolidate"}

EntryPoints == Gather

\* variant: the gather nodes lead straight to human_approval
EdgesSkippingConsolidate ==
    {<<g, "human_approval">> : g \in Gather} \cup {<<"human_approval", "END">>}

\* variant: consolidate is wired to END, human_approval has no incoming edge
EdgesWithoutApproval ==
    {<<g, "consolidate">> : g \in Gather}
        \cup {<<"consolidate", "END">>, <<"human_approval", "END">>}

\* variant: the last two nodes are wired in the other order
EdgesApprovalBeforeConsolidate ==
    {<<g, "human_approval">> : g \in Gather}
        \cup {<<"human_approval", "consolidate">>, <<"consolidate", "END">>}

Edges == {<<g, "consolidate">> : g \in Gather}
           \cup {<<"consolidate", "human_approval">>, <<"human_approval", "END">>}

ResultKeys == {"flight_results", "hotel_results", "events_results",
               "restaurant_results", "attractions_results",
               "social_places_results"}

InputKeys == {"destination", "dates", "budget"}

StateKeys == InputKeys \cup ResultKeys \cup {"final_plan", "human_approved"}

\* the result field each gather agent returns
ResultKey(n) ==
    CASE n = "flight_search" -> "flight_results"
      [] n = "hotel_search" -> "hotel_results"
      [] n = "events_search" -> "events_results"
      [] n = "restaurant_search" -> "restaurant_results"
      [] n = "attractions_search" -> "attractions_results"
      [] n = "social_places_search" -> "social_places_results"

----------------------------------------------------------------------------
(* models.py: the mock search providers *)

mock_flight_search(destination, dates, budget) ==
    [flights |-> <<"Ryanair", "Aer Lingus">>,
     destination |-> destination, search_dates |-> dates]

mock_hotel_search(destination, dates, budget) ==
    [hotels |-> <<"Hotel Catalonia", "NH Hotels">>,
     destination |-> destination, search_dates |-> dates]

mock_events_search(destination, dates) ==
    [events |-> <<"Local Art Festival", "Food & Wine Tour">>, destination |-> destination]

mock_restaurant_search(destination) ==
    [restaurants |-> <<"The Local Bistro", "Seaside Grill">>,
     destination |-> destination]

\* json.dumps(data, indent=2): the text handed to the prompt, not the dict
json_dumps(data) == <<"json", data>>

----------------------------------------------------------------------------
(* parallel_agents.py: the node functions.                                 *)
(* A call is the record of what one invocation did:                        *)
(*   arg      the state object it was given, as it is after the call       *)
(*   raised   the call raised instead of returning                         *)
(*   error    what it raised: "none", "GenerationError" (out of            *)
(*            chain.invoke) or "KeyError" (a dict lookup)                  *)
(*   ret      the patch returned (the empty dict when it raised)           *)
(*   searches the number of search-provider calls it made                  *)
(*   gens     the number of chain.invoke calls it made                     *)
(*   vars     the variables it passed to chain.invoke                      *)
(* out is what chain.invoke did: a text, or GenerationError when it raised.*)

Call(st, out, patch, searches, tvars) ==
    [arg |-> st,
     raised |-> (out = GenerationError),
     error |-> IF out = GenerationError THEN "GenerationError" ELSE "none",
     ret |-> IF out = GenerationError THEN EmptyDict ELSE patch,
     searches |-> searches,
     gens |-> 1,
     vars |-> tvars]

\* variant: the agent stores its result in the state object it was given
flight_agent_in_place(st, out) ==
    LET flight_data ==
            mock_flight_search(st["destination"], st["dates"], st["budget"])
        patch == "flight_results" :> [data |-> flight_data, analysis |-> out]
    IN  [Call(st, out, patch, 1, EmptyDict) EXCEPT
            !.arg = IF out = GenerationError THEN st ELSE patch @@ st]

\* variant: the generation call is made a second time when it has returned
flight_agent_asking_twice(st, out) ==
    LET flight_data ==
            mock_flight_search(st["destination"], st["dates"], st["budget"])
        call == Call(st, out,
                     "flight_results" :> [data |-> flight_data, analysis |-> out],
                     1,
                     [destination |-> st["destination"], dates |-> st["dates"],
                      budget |-> st["budget"], results |-> json_dumps(flight_data)])
    IN  [call EXCEPT !.gens = IF out = GenerationError THEN 1 ELSE 2]

flight_agent(st, out) ==
    LET flight_data ==
            mock_flight_search(st["destination"], st["dates"], st["budget"])
    IN  Call(st, out,
             "flight_results" :> [data |-> flight_data, analysis |-> out],
             1,
             [destination |-> st["destination"], dates |-> st["dates"],
              budget |-> st["budget"], results |-> json_dumps(flight_data)])

\* variant: a failed generation is caught and an empty analysis returned
hotel_agent_swallowing(st, out) ==
    LET hotel_data ==
            mock_hotel_search(st["destination"], st["dates"], st["budget"])
    IN  [arg |-> st, raised |-> FALSE, error |-> "none",
         ret |-> "hotel_results" :>
                    [data |-> hotel_data,
                     analysis |-> IF out = GenerationError THEN "" ELSE out],
         searches |-> 1, gens |-> 1, vars |-> EmptyDict]

hotel_agent(st, out) ==
    LET hotel_data ==
            mock_hotel_search(st["destination"], st["dates"], st["budget"])
    IN  Call(st, out,
             "hotel_results" :> [data |-> hotel_data, analysis |-> out],
             1,
             [destination |-> st["destination"], dates |-> st["dates"],
              budget |-> st["budget"], results |-> json_dumps(hotel_data)])

\* variant: the agent returns the whole updated state, not a patch
events_agent_full_state(st, out) ==
    LET events_data == mock_events_search(st["destination"], st["dates"])
        patch == "events_results" :> [data |-> events_data, analysis |-> out]
    IN  Call(st, out, patch @@ st, 1, EmptyDict)

events_agent(st, out) ==
    LET events_data == mock_events_search(st["destination"], st["dates"])
    IN  Call(st, out,
             "events_results" :> [data |-> events_data, analysis |-> out],
             1,
             [destination |-> st["destination"], dates |-> st["dates"],
              results |-> json_dumps(events_data)])

\* variant: the agent returns its result under the events key
restaurant_agent_wrong_key(st, out) ==
    LET restaurant_data == mock_restaurant_search(st["destination"])
    IN  Call(st, out,
             "events_results" :> [data |-> restaurant_data, analysis |-> out],
             1, EmptyDict)

\* variant: the agent looks for restaurants near the hotels already found
restaurant_agent_near_hotel(st, out) ==
    LET restaurant_data == mock_restaurant_search(st["destination"])
    IN  Call(st, out,
             "restaurant_results" :> [data |-> restaurant_data, analysis |-> out],
             1,
             [destination |-> st["destination"], budget |-> st["budget"],
              results |-> json_dumps(restaurant_data),
              hotels |-> st["hotel_results"]])

restaurant_agent(st, out) ==
    LET restaurant_data == mock_restaurant_search(st["destination"])
    IN  Call(st, out,
             "restaurant_results" :> [data |-> restaurant_data, analysis |-> out],
             1,
             [destination |-> st["destination"], budget |-> st["budget"],
              results |-> json_dumps(restaurant_data)])

\* variant: the agent returns its result under the hotel key
attractions_agent_hotel_key(st, out) ==
    Call(st, out,
         "hotel_results" :> [data |-> [llm_generated |-> TRUE],
                             analysis |-> out],
         0,
         [destination |-> st["destination"], dates |-> st["dates"],
          budget |-> st["budget"]])

attractions_agent(st, out) ==
    Call(st, out,
         "attractions_results" :> [data |-> [llm_generated |-> TRUE],
                                   analysis |-> out],
         0,
         [destination |-> st["destination"], dates |-> st["dates"],
          budget |-> st["budget"]])

\* variant: the agent also returns a rewritten budget
social_places_agent_budget(st, out) ==
    Call(st, out,
         "social_places_results" :> [data |-> [llm_generated |-> TRUE],
                                     analysis |-> out]
            @@ "budget" :> "",
         0, EmptyDict)

social_places_agent(st, out) ==
    Call(st, out,
         "social_places_results" :> [data |-> [llm_generated |-> TRUE],
                                     analysis |-> out],
         0,
         [destination |-> st["destination"], dates |-> st["dates"],
          budget |-> st["budget"]])

\* state[k]["analysis"] raises KeyError when the result dict has no analysis
HasAnalysis(st, k) == k \in DOMAIN st /\ "analysis" \in DOMAIN st[k]

\* variant: the plan is returned under the key plan
consolidate_plan_wrong_key(st, out) ==
    IF \E k \in ResultKeys : ~HasAnalysis(st, k)
    THEN [arg |-> st, raised |-> TRUE, error |-> "KeyError",
          ret |-> EmptyDict, searches |-> 0, gens |-> 0, vars |-> EmptyDict]
    ELSE Call(st, out, "plan" :> out, 0, EmptyDict)

\* variant: social_places is left out of the variables
consolidate_plan_without_social_places(st, out) ==
    IF \E k \in ResultKeys : ~HasAnalysis(st, k)
    THEN [arg |-> st, raised |-> TRUE, error |-> "KeyError",
          ret |-> EmptyDict, searches |-> 0, gens |-> 0, vars |-> EmptyDict]
    ELSE Call(st, out,
              "final_plan" :> out,
              0,
              [destination |-> st["destination"], dates |-> st["dates"],
               budget |-> st["budget"],
               flights |-> st["flight_results"]["analysis"],
               hotels |-> st["hotel_results"]["analysis"],
               events |-> st["events_results"]["analysis"],
               restaurants |-> st["restaurant_results"]["analysis"],
               attractions |-> st["attractions_results"]["analysis"]])

\* variant: state.get(k, {}).get("analysis", "") in place of the lookups
AnalysisOrEmpty(st, k) == IF HasAnalysis(st, k) THEN st[k]["analysis"] ELSE ""

consolidate_plan_defaulting(st, out) ==
    Call(st, out,
         "final_plan" :> out,
         0,
         [destination |-> st["destination"], dates |-> st["dates"],
          budget |-> st["budget"],
          flights |-> AnalysisOrEmpty(st, "flight_results"),
          hotels |-> AnalysisOrEmpty(st, "hotel_results"),
          events |-> AnalysisOrEmpty(st, "events_results"),
          restaurants |-> AnalysisOrEmpty(st, "restaurant_results"),
          attractions |-> AnalysisOrEmpty(st, "attractions_results"),
          social_places |-> AnalysisOrEmpty(st, "social_places_results")])

\* variant: the consolidated plan is returned as already approved
consolidate_plan_auto_approving(st, out) ==
    IF \E k \in ResultKeys : ~HasAnalysis(st, k)
    THEN [arg |-> st, raised |-> TRUE, error |-> "KeyError",
          ret |-> EmptyDict, searches |-> 0, gens |-> 0, vars |-> EmptyDict]
    ELSE Call(st, out, "final_plan" :> out @@ "human_approved" :> TRUE, 0,
              EmptyDict)

\* The arguments of chain.invoke are evaluated first: a missing analysis
\* raises before any generation call is made.
consolidate_plan(st, out) ==
    IF \E k \in ResultKeys : ~HasAnalysis(st, k)
    THEN [arg |-> st, raised |-> TRUE, error |-> "KeyError",
          ret |-> EmptyDict, searches |-> 0, gens |-> 0, vars |-> EmptyDict]
    ELSE Call(st, out,
              "final_plan" :> out,
              0,
              [destination |-> st["destination"], dates |-> st["dates"],
               budget |-> st["budget"],
               flights |-> st["flight_results"]["analysis"],
               hotels |-> st["hotel_results"]["analysis"],
               events |-> st["events_results"]["analysis"],
               restaurants |-> st["restaurant_results"]["analysis"],
               attractions |-> st["attractions_results"]["analysis"],
               social_places |-> st["social_places_results"]["analysis"]])

\* the function add_node registered under each gather node's name
GatherAgent(n, st, out) ==
    CASE n = "flight_search" -> flight_agent(st, out)
      [] n = "hotel_search" -> hotel_agent(st, out)
      [] n = "events_search" -> events_agent(st, out)
      [] n = "restaurant_search" -> restaurant_agent(st, out)
      [] n = "attractions_search" -> attractions_agent(st, out)
      [] n = "social_places_search" -> social_places_agent(st, out)

----------------------------------------------------------------------------
(* The merge of a patch into the shared state: dict.update, one value per  *)
(* key, the patch's value winning.                                         *)

\* variant: the items of both dicts that differ (items() ^ items()): a key
\* on which state and patch agree is dropped
MergeSymmetricDifference(st, patch) ==
    [k \in (DOMAIN st \cup DOMAIN patch)
            \ {j \in DOMAIN st \cap DOMAIN patch : st[j] = patch[j]} |->
        IF k \in DOMAIN patch THEN patch[k] ELSE st[k]]

\* variant: a key the state already holds keeps its value (setdefault)
MergeKeepingOld(st, patch) ==
    [k \in DOMAIN st \cup DOMAIN patch |->
        IF k \in DOMAIN st THEN st[k] ELSE patch[k]]

Merge(st, patch) ==
    [k \in DOMAIN st \cup DOMAIN patch |->
        IF k \in DOMAIN patch THEN patch[k] ELSE st[k]]

\* the patches of the nodes in D merged one after the other, in node order
RECURSIVE MergeFrom(_, _, _, _)
MergeFrom(st, w, D, i) ==
    IF i > Len(NodeOrder) THEN st
    ELSE MergeFrom(IF NodeOrder[i] \in D THEN Merge(st, w[NodeOrder[i]]) ELSE st,
                   w, D, i + 1)

MergeAll(st, w, D) == MergeFrom(st, w, D, 1)

----------------------------------------------------------------------------
(* main(): the initial state handed to travel_system.invoke *)

travel_request(user_request) ==
    [k \in StateKeys |->
        CASE k = "destination" -> user_request.destination
          [] k = "dates" -> user_request.dates
          [] k = "budget" -> user_request.budget
          [] k \in ResultKeys -> EmptyDict
          [] k = "final_plan" -> ""
          [] k = "human_approved" -> FALSE]

\* no function is being called on its own
NoUnit == [fn |-> "none"]

\* collect_user_travel_request is not running
CrIdle == [phase |-> "idle"]

HpInit == [phase |-> "none", prompts |-> 0, invalid |-> 0, approval |-> "",
           feedback |-> "", revised_plan |-> "", confirms |-> 0,
           final_approval |-> FALSE, vars |-> EmptyDict]

Init ==
    /\ request \in [destination : Destinations, dates : DatesSet, budget : Budgets]
    /\ state = travel_request(request)
    /\ pc = [n \in Nodes |-> IF n \in EntryPoints THEN "pending" ELSE "idle"]
    /\ input = [n \in Nodes |-> EmptyDict]
    /\ writes = [n \in Nodes |-> EmptyDict]
    /\ runs = [n \in Nodes |-> 0]
    /\ genCalls = [n \in Nodes |-> 0]
    /\ searchCalls = [n \in Nodes |-> 0]
    /\ genFailed = [n \in Nodes |-> FALSE]
    /\ writers = [k \in StateKeys |-> {}]
    /\ hp = HpInit
    /\ status = "running"
    /\ result = EmptyDict
    /\ unit = NoUnit
    /\ cr = CrIdle

----------------------------------------------------------------------------
(* The execution of the compiled graph: the nodes scheduled together form  *)
(* one step; their patches are merged when all of them have returned, and  *)
(* the nodes their edges lead to are scheduled next.                       *)

\* the nodes of the step in progress
Tasks == {n \in Nodes : pc[n] \in {"pending", "running", "done", "failed", "cancelled"}}

\* variant: each returned patch is merged at once (per-edge triggering)
StepCompleteAny == \E n \in Tasks : pc[n] = "done"

\* variant: a node that raised or was cancelled counts as finished
StepCompleteIgnoringFailures ==
    /\ \E n \in Tasks : pc[n] = "done"
    /\ \A n \in Tasks : pc[n] \in {"done", "failed", "cancelled"}

\* every node of the step has returned its patch
StepComplete == Tasks # {} /\ \A n \in Tasks : pc[n] = "done"

\* the nodes the edges out of D lead to (END is no node)
Triggered(D) == {m \in Nodes : \E n \in D : <<n, m>> \in Edges}

\* the step is over with a node that raised
StepFailed ==
    /\ \E n \in Tasks : pc[n] = "failed"
    /\ \A n \in Tasks : pc[n] \in {"done", "failed", "cancelled"}

\* a node of the step is invoked with the state as it stands
Start(n) ==
    /\ status = "running"
    /\ pc[n] = "pending"
    /\ pc' = [pc EXCEPT ![n] = "running"]
    /\ input' = [input EXCEPT ![n] = state]
    /\ runs' = [runs EXCEPT ![n] = @ + 1]

\* what a finished call leaves behind; out is what its chain.invoke did
Finish(n, call, out) ==
    /\ pc' = [pc EXCEPT ![n] = IF call.raised THEN "failed" ELSE "done"]
    /\ input' = [input EXCEPT ![n] = call.arg]
    /\ writes' = [writes EXCEPT ![n] = call.ret]
    /\ genCalls' = [genCalls EXCEPT ![n] = @ + call.gens]
    /\ searchCalls' = [searchCalls EXCEPT ![n] = @ + call.searches]
    /\ genFailed' = [genFailed EXCEPT ![n] = (out = GenerationError /\ call.gens > 0)]

GatherStart(n) ==
    /\ n \in Gather
    /\ Start(n)
    /\ UNCHANGED <<unit, cr, request, state, writes, genCalls, searchCalls, genFailed,
                   writers, hp, status, result>>

\* the body of a gather agent: search, chain.invoke, return or raise
GatherRun(n, out) ==
    /\ n \in Gather
    /\ status = "running"
    /\ pc[n] = "running"
    /\ Finish(n, GatherAgent(n, input[n], out), out)
    /\ UNCHANGED <<unit, cr, request, state, runs, writers, hp, status, result>>

\* a node not yet started is cancelled once a sibling has raised
Cancel(n) ==
    /\ status = "running"
    /\ pc[n] = "pending"
    /\ \E m \in Tasks : pc[m] = "failed"
    /\ pc' = [pc EXCEPT ![n] = "cancelled"]
    /\ UNCHANGED <<unit, cr, request, state, input, writes, runs, genCalls, searchCalls,
                   genFailed, writers, hp, status, result>>

ConsolidateStart ==
    /\ Start("consolidate")
    /\ UNCHANGED <<unit, cr, request, state, writes, genCalls, searchCalls, genFailed,
                   writers, hp, status, result>>

ConsolidateRun(out) ==
    /\ status = "running"
    /\ pc["consolidate"] = "running"
    /\ Finish("consolidate", consolidate_plan(input["consolidate"], out), out)
    /\ UNCHANGED <<unit, cr, request, state, runs, writers, hp, status, result>>

----------------------------------------------------------------------------
(* main.py: human_approval_agent, one action per prompt *)

\* what Prompt.ask may hand back for the approval question
RawAnswers == {"yes", "Y", " no ", "n", "modify", "M", "maybe", ""}

\* str.lower().strip() on those answers
lower_strip(raw) ==
    CASE raw = "yes" -> "yes"
      [] raw = "Y" -> "y"
      [] raw = " no " -> "no"
      [] raw = "n" -> "n"
      [] raw = "modify" -> "modify"
      [] raw = "M" -> "m"
      [] raw = "maybe" -> "maybe"
      [] raw = "" -> ""

\* variant: the chain ends in an else that rejects
DecisionDefaultReject(approval) ==
    IF approval \in {"yes", "y"} THEN "approve"
    ELSE IF approval \in {"modify", "m"} THEN "modify"
    ELSE "reject"

\* the branch of the if/elif chain an answer takes
Decision(approval) ==
    IF approval \in {"yes", "y"} THEN "approve"
    ELSE IF approval \in {"no", "n"} THEN "reject"
    ELSE IF approval \in {"modify", "m"} THEN "modify"
    ELSE "reprompt"

\* variant: the reject branch returns True as the approve branch does
ApprovalPatchAlwaysTrue(approved) == "human_approved" :> TRUE

ApprovalPatch(approved) == "human_approved" :> approved

\* variant: a declined revision is dropped, the original plan kept
RevisedPatchKeepingOriginal(revised_plan, final_approval) ==
    IF final_approval
    THEN "final_plan" :> revised_plan @@ "human_approved" :> TRUE
    ELSE "human_approved" :> FALSE

\* variant: the declined branch returns True as the confirmed branch does
RevisedPatchAlwaysApproved(revised_plan, final_approval) ==
    "final_plan" :> revised_plan @@ "human_approved" :> TRUE

RevisedPatch(revised_plan, final_approval) ==
    "final_plan" :> revised_plan @@ "human_approved" :> final_approval

HumanStart ==
    /\ Start("human_approval")
    /\ hp' = [HpInit EXCEPT !.phase = "awaiting"]
    /\ UNCHANGED <<unit, cr, request, state, writes, genCalls, searchCalls, genFailed,
                   writers, status, result>>

HumanAsked(raw, d) ==
    /\ status = "running"
    /\ pc["human_approval"] = "running"
    /\ hp.phase = "awaiting"
    /\ Decision(lower_strip(raw)) = d

HumanReturn(patch) ==
    /\ pc' = [pc EXCEPT !["human_approval"] = "done"]
    /\ writes' = [writes EXCEPT !["human_approval"] = patch]

HumanApprove(raw) ==
    /\ HumanAsked(raw, "approve")
    /\ HumanReturn(ApprovalPatch(TRUE))
    /\ hp' = [hp EXCEPT !.phase = "returned", !.prompts = @ + 1,
                        !.approval = lower_strip(raw)]
    /\ UNCHANGED <<unit, cr, request, state, input, runs, genCalls, searchCalls,
                   genFailed, writers, status, result>>

HumanReject(raw) ==
    /\ HumanAsked(raw, "reject")
    /\ HumanReturn(ApprovalPatch(FALSE))
    /\ hp' = [hp EXCEPT !.phase = "returned", !.prompts = @ + 1,
                        !.approval = lower_strip(raw)]
    /\ UNCHANGED <<unit, cr, request, state, input, runs, genCalls, searchCalls,
                   genFailed, writers, status, result>>

\* modify: the feedback is asked for, the revision is generated next
HumanModify(raw, fb) ==
    /\ HumanAsked(raw, "modify")
    /\ hp' = [hp EXCEPT !.phase = "revising", !.prompts = @ + 1,
                        !.approval = lower_strip(raw), !.feedback = strip(fb)]
    /\ UNCHANGED <<unit, cr, request, state, pc, input, writes, runs, genCalls,
                   searchCalls, genFailed, writers, status, result>>

\* any other answer: the while True loop asks again
HumanReprompt(raw) ==
    /\ HumanAsked(raw, "reprompt")
    /\ hp.invalid < MaxPrompts
    /\ hp' = [hp EXCEPT !.prompts = @ + 1, !.approval = lower_strip(raw),
                        !.invalid = @ + 1]
    /\ UNCHANGED <<unit, cr, request, state, pc, input, writes, runs, genCalls,
                   searchCalls, genFailed, writers, status, result>>

\* variant: the revised plan is stored in the shared state at once, before
\* the user confirms it
HumanReviseInPlace(out) ==
    /\ status = "running"
    /\ pc["human_approval"] = "running"
    /\ hp.phase = "revising"
    /\ genCalls' = [genCalls EXCEPT !["human_approval"] = @ + 1]
    /\ genFailed' = [genFailed EXCEPT !["human_approval"] = (out = GenerationError)]
    /\ IF out = GenerationError
       THEN /\ pc' = [pc EXCEPT !["human_approval"] = "failed"]
            /\ hp' = [hp EXCEPT !.phase = "raised"]
            /\ state' = state
       ELSE /\ pc' = pc
            /\ hp' = [hp EXCEPT !.phase = "confirming", !.revised_plan = out,
                                !.vars = [original_plan |->
                                              input["human_approval"]["final_plan"],
                                          feedback |-> hp.feedback]]
            /\ state' = [state EXCEPT !["final_plan"] = out]
    /\ UNCHANGED <<unit, cr, request, input, writes, runs, searchCalls, writers,
                   status, result>>

\* variant: a failed revision is caught and the plan returned unapproved
HumanReviseSwallowing(out) ==
    /\ status = "running"
    /\ pc["human_approval"] = "running"
    /\ hp.phase = "revising"
    /\ genCalls' = [genCalls EXCEPT !["human_approval"] = @ + 1]
    /\ genFailed' = [genFailed EXCEPT !["human_approval"] = (out = GenerationError)]
    /\ IF out = GenerationError
       THEN /\ HumanReturn(ApprovalPatch(FALSE))
            /\ hp' = [hp EXCEPT !.phase = "returned"]
       ELSE /\ UNCHANGED <<pc, writes>>
            /\ hp' = [hp EXCEPT !.phase = "confirming", !.revised_plan = out,
                                !.vars = [original_plan |->
                                              input["human_approval"]["final_plan"],
                                          feedback |-> hp.feedback]]
    /\ UNCHANGED <<unit, cr, request, state, input, runs, searchCalls, writers,
                   status, result>>

\* chain.invoke({"original_plan": state["final_plan"], "feedback": feedback})
HumanRevise(out) ==
    /\ status = "running"
    /\ pc["human_approval"] = "running"
    /\ hp.phase = "revising"
    /\ genCalls' = [genCalls EXCEPT !["human_approval"] = @ + 1]
    /\ genFailed' = [genFailed EXCEPT !["human_approval"] = (out = GenerationError)]
    /\ IF out = GenerationError
       THEN /\ pc' = [pc EXCEPT !["human_approval"] = "failed"]
            /\ hp' = [hp EXCEPT !.phase = "raised"]
       ELSE /\ pc' = pc
            /\ hp' = [hp EXCEPT !.phase = "confirming", !.revised_plan = out,
                                !.vars = [original_plan |->
                                              input["human_approval"]["final_plan"],
                                          feedback |-> hp.feedback]]
    /\ UNCHANGED <<unit, cr, request, state, input, writes, runs, searchCalls, writers,
                   status, result>>

\* variant: a declined revision falls through to the top of the while loop
HumanConfirmLooping(final_approval) ==
    /\ status = "running"
    /\ pc["human_approval"] = "running"
    /\ hp.phase = "confirming"
    /\ IF final_approval
       THEN /\ HumanReturn(RevisedPatch(hp.revised_plan, TRUE))
            /\ hp' = [hp EXCEPT !.phase = "returned", !.confirms = @ + 1,
                                !.final_approval = TRUE]
       ELSE /\ UNCHANGED <<pc, writes>>
            /\ hp' = [hp EXCEPT !.phase = "awaiting", !.confirms = @ + 1]
    /\ UNCHANGED <<unit, cr, request, state, input, runs, genCalls,
                   searchCalls, genFailed, writers, status, result>>

\* Confirm.ask on the revised plan
HumanConfirm(final_approval) ==
    /\ status = "running"
    /\ pc["human_approval"] = "running"
    /\ hp.phase = "confirming"
    /\ HumanReturn(RevisedPatch(hp.revised_plan, final_approval))
    /\ hp' = [hp EXCEPT !.phase = "returned", !.confirms = @ + 1,
                        !.final_approval = final_approval]
    /\ UNCHANGED <<unit, cr, request, state, input, runs, genCalls, searchCalls,
                   genFailed, writers, status, result>>

----------------------------------------------------------------------------
(* The end of a step *)

\* the patches of the step are merged, the next nodes scheduled; with no
\* node left, invoke returns the state
ApplyWrites ==
    /\ status = "running"
    /\ StepComplete
    /\ LET D == {n \in Tasks : pc[n] = "done"}
           new == MergeAll(state, writes, D)
           next == Triggered(D)
           left == (Tasks \ D) \cup next
       IN  /\ state' = new
           /\ pc' = [n \in Nodes |->
                        IF n \in next THEN "pending"
                        ELSE IF n \in D THEN "merged" ELSE pc[n]]
           /\ writes' = [n \in Nodes |-> IF n \in D THEN EmptyDict ELSE writes[n]]
           /\ writers' = [k \in StateKeys |->
                            writers[k] \cup {n \in D : k \in DOMAIN writes[n]}]
           /\ status' = IF left = {} THEN "returned" ELSE "running"
           /\ result' = IF left = {} THEN new ELSE result
    /\ UNCHANGED <<unit, cr, request, input, runs, genCalls, searchCalls, genFailed, hp>>

\* a node of the step raised: invoke raises to its caller, nothing is merged
Raise ==
    /\ status = "running"
    /\ StepFailed
    /\ status' = "failed"
    /\ UNCHANGED <<unit, cr, request, state, pc, input, writes, runs, genCalls,
                   searchCalls, genFailed, writers, hp, result>>

Next ==
    \/ \E n \in Gather : GatherStart(n)
    \/ \E n \in Gather, out \in GenOutputs \cup {GenerationError} : GatherRun(n, out)
    \/ \E n \in Nodes : Cancel(n)
    \/ ConsolidateStart
    \/ \E out \in GenOutputs \cup {GenerationError} : ConsolidateRun(out)
    \/ HumanStart
    \/ \E raw \in RawAnswers : HumanApprove(raw)
    \/ \E raw \in RawAnswers : HumanReject(raw)
    \/ \E raw \in RawAnswers, fb \in Feedbacks : HumanModify(raw, fb)
    \/ \E raw \in RawAnswers : HumanReprompt(raw)
    \/ \E out \in GenOutputs \cup {GenerationError} : HumanRevise(out)
    \/ \E b \in BOOLEAN : HumanConfirm(b)
    \/ ApplyWrites
    \/ Raise

Spec == Init /\ [][Next]_vars

----------------------------------------------------------------------------
(* Functions called on their own, as the tests call them *)

workflowVars == <<request, state, pc, input, writes, runs, genCalls,
                  searchCalls, genFailed, writers, hp, status, result>>

\* no workflow is being executed
WorkflowIdle ==
    /\ request = [destination |-> "Barcelona", dates |-> "March 15-20, 2024",
                  budget |-> "$2000"]
    /\ state = travel_request(request)
    /\ pc = [n \in Nodes |-> "idle"]
    /\ input = [n \in Nodes |-> EmptyDict]
    /\ writes = [n \in Nodes |-> EmptyDict]
    /\ runs = [n \in Nodes |-> 0]
    /\ genCalls = [n \in Nodes |-> 0]
    /\ searchCalls = [n \in Nodes |-> 0]
    /\ genFailed = [n \in Nodes |-> FALSE]
    /\ writers = [k \in StateKeys |-> {}]
    /\ hp = HpInit
    /\ status = "idle"
    /\ result = EmptyDict

\* a populated result field, as a gather agent returns it
ResultOf(analysis) == [data |-> [llm_generated |-> TRUE], analysis |-> analysis]

\* f with only the keys in S
Restrict(f, S) == [k \in S \cap DOMAIN f |-> f[k]]

(* state.update(patch), repeated: the dicts are over three keys of the     *)
(* state, each present or not                                              *)

\* how many times the same patch is merged
MaxMerges == 2

MergeKeys == {"flight_results", "final_plan", "human_approved"}

MergeDicts ==
    {Restrict("flight_results" :> r @@ "final_plan" :> p @@ "human_approved" :> h, S) :
        r \in {EmptyDict} \cup {ResultOf(a) : a \in GenOutputs},
        p \in {""} \cup GenOutputs,
        h \in BOOLEAN,
        S \in SUBSET MergeKeys}

MergeInit ==
    /\ WorkflowIdle
    /\ cr = CrIdle
    /\ \E st \in MergeDicts, patch \in MergeDicts :
          unit = [fn |-> "merge", st |-> st, patch |-> patch, merges |-> 0,
                  once |-> st, cur |-> st]

\* state.update(patch) once more
MergeAgain ==
    /\ unit.fn = "merge"
    /\ unit.merges < MaxMerges
    /\ unit' = [unit EXCEPT !.merges = @ + 1,
                            !.cur = Merge(unit.cur, unit.patch),
                            !.once = IF unit.merges = 0
                                     THEN Merge(unit.cur, unit.patch) ELSE @]
    /\ UNCHANGED <<workflowVars, cr>>

MergeNext == MergeAgain

MergeSpec == MergeInit /\ [][MergeNext]_vars

(* consolidate_plan(state), called with a state whose result fields are    *)
(* each empty, holding data only, or populated                             *)

\* the result fields a state may hold when consolidate_plan is called
ResultFields ==
    {EmptyDict, [data |-> [llm_generated |-> TRUE]]}
        \cup {ResultOf(a) : a \in GenOutputs}

ConsolidateStates ==
    {[k \in StateKeys |->
         IF k \in ResultKeys THEN rs[k] ELSE travel_request(r)[k]] :
        r \in [destination : Destinations, dates : DatesSet, budget : Budgets],
        rs \in [ResultKeys -> ResultFields]}

ConsolidateInit ==
    /\ WorkflowIdle
    /\ cr = CrIdle
    /\ \E st \in ConsolidateStates :
          unit = [fn |-> "consolidate_plan", st |-> st, called |-> FALSE,
                  out |-> "", call |-> EmptyDict]

\* result = consolidate_plan(state), chain.invoke returning or raising out
ConsolidateCall(out) ==
    /\ unit.fn = "consolidate_plan"
    /\ ~unit.called
    /\ unit' = [unit EXCEPT !.called = TRUE, !.out = out,
                            !.call = consolidate_plan(unit.st, out)]
    /\ UNCHANGED <<workflowVars, cr>>

ConsolidateNext == \E out \in GenOutputs \cup {GenerationError} : ConsolidateCall(out)

ConsolidateSpec == ConsolidateInit /\ [][ConsolidateNext]_vars

(* collect_user_travel_request(): one step per answer of Prompt.ask        *)

\* how many blank answers the user gives in one call
MaxBlank == 2

Fields == <<"destination", "dates", "budget">>

\* variant: the answer is compared with "" without being stripped
IsBlankNoStrip(raw) == raw = ""

\* not raw.strip()
IsBlank(raw) == strip(raw) = ""

CollectInit ==
    /\ WorkflowIdle
    /\ unit = NoUnit
    /\ cr = [phase |-> 1, destination |-> "", dates |-> "", budget |-> "",
             asked |-> <<>>, blanks |-> 0, ret |-> EmptyDict]

\* the field the pending Prompt.ask is about
CollectField == Fields[cr.phase]

\* the answer is blank: the while loop asks for the same field again
CollectReask(raw) ==
    /\ cr.phase \in 1..3
    /\ IsBlank(raw)
    /\ cr.blanks < MaxBlank
    /\ cr' = [cr EXCEPT ![CollectField] = raw,
                        !.asked = Append(@, CollectField),
                        !.blanks = @ + 1]
    /\ UNCHANGED <<workflowVars, unit>>

\* the answer is not blank: the next field is asked, or after budget the
\* three stripped answers are returned
CollectAccept(raw) ==
    /\ cr.phase \in 1..3
    /\ ~IsBlank(raw)
    /\ LET locals == [cr EXCEPT ![CollectField] = raw]
       IN  cr' = [locals EXCEPT
                     !.asked = Append(@, CollectField),
                     !.phase = @ + 1,
                     !.ret = IF cr.phase = 3
                             THEN [destination |-> strip(locals.destination),
                                   dates |-> strip(locals.dates),
                                   budget |-> strip(locals.budget)]
                             ELSE @]
    /\ UNCHANGED <<workflowVars, unit>>

CollectNext ==
    \E raw \in RawTexts : CollectReask(raw) \/ CollectAccept(raw)

CollectSpec == CollectInit /\ [][CollectNext]_vars

(* A gather agent called twice, on the state main builds and on a state    *)
(* with the same request whose other fields differ                         *)

\* the states that hold the request r
StatesWithRequest(r) ==
    {[k \in StateKeys |->
         CASE k \in InputKeys -> r[k]
           [] k \in ResultKeys -> rs[k]
           [] k = "final_plan" -> p
           [] k = "human_approved" -> h] :
        rs \in [ResultKeys -> {EmptyDict, ResultOf("Mock analysis")}],
        p \in {"", "Mock analysis"},
        h \in BOOLEAN}

GatherPairInit ==
    /\ WorkflowIdle
    /\ cr = CrIdle
    /\ \E n \in Gather,
          r \in [destination : Destinations, dates : DatesSet, budget : Budgets] :
          \E st2 \in StatesWithRequest(r) :
             unit = [fn |-> "gather_pair", n |-> n, st1 |-> travel_request(r),
                     st2 |-> st2, called |-> FALSE, out |-> "",
                     call1 |-> EmptyDict, call2 |-> EmptyDict]

\* the agent is called on each of the two states, chain.invoke doing out
GatherPairCall(out) ==
    /\ unit.fn = "gather_pair"
    /\ ~unit.called
    /\ unit' = [unit EXCEPT !.called = TRUE, !.out = out,
                            !.call1 = GatherAgent(unit.n, unit.st1, out),
                            !.call2 = GatherAgent(unit.n, unit.st2, out)]
    /\ UNCHANGED <<workflowVars, cr>>

GatherPairNext ==
    \E out \in GenOutputs \cup {GenerationError} : GatherPairCall(out)

GatherPairSpec == GatherPairInit /\ [][GatherPairNext]_vars

(* generate_travel_request_with_ai(): one step for the greeting, then one  *)
(* step per answer of Prompt.ask                                           *)

max_turns == 10

\* what the user may type at the prompt
AiInputs == {"", "   ", " Barcelona "}

\* the values json.loads may yield for a key: a string, a number, null
Str(s) == [t |-> "str", s |-> s]
Num == [t |-> "num", s |-> ""]
Null == [t |-> "null", s |-> ""]

\* bool(value)
Truthy(v) == v.t = "num" \/ (v.t = "str" /\ v.s # "")

\* what the extraction call may do: raise, return a text without braces,
\* a text whose braces hold no JSON, or a JSON object with these items
Extractions ==
    {[kind |-> k, items |-> <<>>] : k \in {"generation_error", "no_json", "bad_json"}}
    \cup
    {[kind |-> "json", items |-> items] :
        items \in {<<>>,
                   <<<<"destination", Str(" Barcelona ")>>>>,
                   <<<<"dates", Str("March 15-20, 2024")>>, <<"budget", Str("$2000 ")>>>>,
                   <<<<"destination", Str(" Barcelona ")>>, <<"budget", Num>>>>,
                   <<<<"budget", Num>>, <<"destination", Str(" Barcelona ")>>>>,
                   <<<<"dates", Str("   ")>>, <<"destination", Null>>,
                     <<"travelers", Str("Barcelona")>>>>}}

\* what the response call may do: raise, ask for more, or answer with
\* COMPLETE: YES and the DESTINATION:, DATES:, BUDGET: lines in fields
Responses ==
    {[kind |-> "error", fields |-> EmptyDict],
     [kind |-> "more", fields |-> EmptyDict],
     [kind |-> "complete", fields |-> EmptyDict],
     [kind |-> "complete",
      fields |-> [destination |-> "Barcelona", dates |-> "March 15-20, 2024",
                  budget |-> "$2000"]]}

\* for key, value in extracted.items(): if value and value.strip(): ...
\* value.strip() raises AttributeError on a value that is not a string
RECURSIVE ApplyItems(_, _, _)
ApplyItems(info, items, i) ==
    IF i > Len(items) THEN [info |-> info, raised |-> FALSE]
    ELSE LET key == items[i][1]
             value == items[i][2]
         IN  IF ~Truthy(value) THEN ApplyItems(info, items, i + 1)
             ELSE IF value.t # "str" THEN [info |-> info, raised |-> TRUE]
             ELSE IF strip(value.s) = "" THEN ApplyItems(info, items, i + 1)
             ELSE ApplyItems((key :> strip(value.s)) @@ info, items, i + 1)

\* the body of the try block
ExtractionAttempt(collected_info, ext) ==
    CASE ext.kind = "generation_error" -> [info |-> collected_info, raised |-> TRUE]
      [] ext.kind = "no_json" -> [info |-> collected_info, raised |-> FALSE]
      [] ext.kind = "bad_json" -> [info |-> collected_info, raised |-> TRUE]
      [] ext.kind = "json" -> ApplyItems(collected_info, ext.items, 1)

\* variant: the try block has no except clause
extract_info_propagating(collected_info, ext) ==
    ExtractionAttempt(collected_info, ext)

\* try: ... except Exception: pass
extract_info(collected_info, ext) ==
    [ExtractionAttempt(collected_info, ext) EXCEPT !.raised = FALSE]

\* collected_info[k] or "Not provided"
OrNotProvided(s) == IF s = "" THEN "Not provided" ELSE s

\* the variables of the response call
ContextVars(info, user_input) ==
    [user_input |-> user_input,
     destination |-> OrNotProvided(info["destination"]),
     dates |-> OrNotProvided(info["dates"]),
     budget |-> OrNotProvided(info["budget"])]

NoExtraction == [kind |-> "none", items |-> <<>>]

AiInit ==
    /\ WorkflowIdle
    /\ cr = CrIdle
    /\ unit = [fn |-> "generate_travel_request_with_ai", phase |-> "start",
               turn_count |-> 0, prompts |-> 0, blanks |-> 0, history |-> 0,
               responses |-> 0,
               collected_info |-> [destination |-> "", dates |-> "", budget |-> ""],
               ext |-> NoExtraction, vars |-> EmptyDict, ret |-> EmptyDict]

AiRunning == unit.fn = "generate_travel_request_with_ai"

\* ai_response = chain.invoke({}) before the loop
AiGreet(out) ==
    /\ AiRunning
    /\ unit.phase = "start"
    /\ unit' = IF out = GenerationError
               THEN [unit EXCEPT !.phase = "raised"]
               ELSE [unit EXCEPT !.phase = "asking", !.history = 1]
    /\ UNCHANGED <<workflowVars, cr>>

\* if not user_input: continue
AiBlank(raw) ==
    /\ AiRunning
    /\ unit.phase = "asking"
    /\ strip(raw) = ""
    /\ unit.blanks < MaxBlank
    /\ unit' = [unit EXCEPT !.prompts = @ + 1, !.blanks = @ + 1]
    /\ UNCHANGED <<workflowVars, cr>>

\* one pass of the loop body on a non-blank answer: extraction, response,
\* then break, the next turn, or the end of the loop and the return
AiTurn(raw, ext, resp) ==
    /\ AiRunning
    /\ unit.phase = "asking"
    /\ strip(raw) # ""
    /\ LET ex == extract_info(unit.collected_info, ext)
           asked == [unit EXCEPT !.prompts = @ + 1, !.ext = ext]
           final == resp.fields @@ ex.info
       IN  unit' =
             IF ex.raised
             THEN [asked EXCEPT !.phase = "raised", !.history = @ + 1,
                                !.collected_info = ex.info]
             ELSE IF resp.kind = "error"
             THEN [asked EXCEPT !.phase = "raised", !.history = @ + 1,
                                !.collected_info = ex.info,
                                !.responses = @ + 1,
                                !.vars = ContextVars(ex.info, strip(raw))]
             ELSE IF resp.kind = "complete"
             THEN [asked EXCEPT !.phase = "returned", !.history = @ + 2,
                                !.collected_info = final,
                                !.responses = @ + 1,
                                !.vars = ContextVars(ex.info, strip(raw)),
                                !.ret = final]
             ELSE [asked EXCEPT !.phase = IF unit.turn_count + 1 < max_turns
                                          THEN "asking" ELSE "returned",
                                !.turn_count = @ + 1,
                                !.history = @ + 2,
                                !.collected_info = ex.info,
                                !.responses = @ + 1,
                                !.vars = ContextVars(ex.info, strip(raw)),
                                !.ret = IF unit.turn_count + 1 < max_turns
                                        THEN EmptyDict ELSE ex.info]
    /\ UNCHANGED <<workflowVars, cr>>

AiNext ==
    \/ \E out \in GenOutputs \cup {GenerationError} : AiGreet(out)
    \/ \E raw \in AiInputs : AiBlank(raw)
    \/ \E raw \in AiInputs, ext \in Extractions, resp \in Responses :
          AiTurn(raw, ext, resp)

AiSpec == AiInit /\ [][AiNext]_vars

\* Every node scheduled is eventually run to its end, every call returns or
\* raises, and the user eventually answers: some step is always taken
\* while one is possible.
FairSpec == Spec /\ WF_vars(Next)

----------------------------------------------------------------------------
(* Properties *)

Merged(n) == pc[n] = "merged"

\* a result field holding both data and analysis
Populated(st, k) ==
    /\ k \in DOMAIN st
    /\ DOMAIN st[k] = {"data", "analysis"}
    /\ st[k]["analysis"] \in GenOutputs

\* a state with all six results and a final plan
Complete(st) ==
    /\ \A k \in ResultKeys : Populated(st, k)
    /\ "final_plan" \in DOMAIN st
    /\ st["final_plan"] \in GenOutputs

\* C1: consolidate is neither scheduled nor started before all six gather
\* nodes have returned and their patches are merged; the state consolidate
\* is invoked with, and the shared state from then on, hold all six results
\* with an analysis.
C1_ConsolidateAfterAllGather ==
    (pc["consolidate"] # "idle" \/ runs["consolidate"] > 0) =>
        /\ \A g \in Gather : Merged(g) /\ Populated(state, ResultKey(g))
        /\ runs["consolidate"] > 0 =>
              \A g \in Gather : Populated(input["consolidate"], ResultKey(g))

C1_Witness ==
    /\ pc["consolidate"] = "running"
    /\ \A g \in Gather : Merged(g)

\* C2: consolidate is invoked at most once in an execution, exactly once in
\* an execution that returns, and that one invocation comes after all six
\* gather nodes have merged.
C2_ConsolidateOnce ==
    /\ runs["consolidate"] <= 1
    /\ status = "returned" => runs["consolidate"] = 1
    /\ runs["consolidate"] = 1 => \A g \in Gather : Merged(g)

C2_Witness ==
    /\ status = "returned"
    /\ runs["consolidate"] = 1
    /\ \A g \in Gather : runs[g] = 1

GatherFailed == \E g \in Gather : pc[g] = "failed"

\* C3: once a gather node has failed, consolidate and human_approval are
\* never scheduled or invoked, whether the siblings finish or are cancelled,
\* invoke does not return a state, and the failure reaches the caller.
C3_GatherFailureAborts ==
    /\ [](GatherFailed =>
            /\ pc["consolidate"] = "idle" /\ runs["consolidate"] = 0
            /\ pc["human_approval"] = "idle" /\ runs["human_approval"] = 0
            /\ status # "returned"
            /\ result = EmptyDict)
    /\ (GatherFailed ~> status = "failed")

C3_Witness ==
    /\ status = "failed"
    /\ \E g \in Gather : pc[g] = "failed"
    /\ \E g \in Gather : pc[g] = "done"
    /\ \E g \in Gather : pc[g] = "cancelled"

\* C4: an execution ends either returned or failed; when it has returned,
\* human_approval ran once, on a state holding all six results and a final
\* plan, and the state returned holds them too; when it has not returned,
\* the caller holds no state.
C4_NoPartialFinalState ==
    /\ status \in {"running", "returned", "failed"}
    /\ status = "returned" =>
          /\ Complete(result)
          /\ runs["human_approval"] = 1
          /\ Merged("human_approval")
          /\ Complete(input["human_approval"])
    /\ status # "returned" => result = EmptyDict

C4_Witness ==
    /\ status = "returned"
    /\ Complete(result)
    /\ result["human_approved"] = FALSE

\* C5: a gather node whose generation call failed made that one call only,
\* has failed (the failure is not swallowed), left no patch to merge, and
\* its result field in the shared state is what it was when the node was
\* invoked; the execution does not return a state.
C5_GenerationFailure ==
    \A g \in Gather :
        genFailed[g] =>
            /\ genCalls[g] = 1
            /\ pc[g] = "failed"
            /\ writes[g] = EmptyDict
            /\ g \notin writers[ResultKey(g)]
            /\ state[ResultKey(g)] = input[g][ResultKey(g)]
            /\ state[ResultKey(g)] = EmptyDict
            /\ status # "returned"

C5_Witness ==
    /\ genFailed["hotel_search"]
    /\ pc["hotel_search"] = "failed"
    /\ pc["flight_search"] = "done"
    /\ status = "failed"

\* the three input fields of a state object are the driver's
SameInputs(st) ==
    \A k \in InputKeys : k \in DOMAIN st /\ st[k] = request[k]

\* C6: destination, dates and budget of the shared state, of every state a
\* node is invoked with and of the state returned are the values the driver
\* put in the initial state, and no patch holds one of these keys.
C6_InputsNeverChange ==
    /\ SameInputs(state)
    /\ \A n \in Nodes : runs[n] > 0 => SameInputs(input[n])
    /\ \A n \in Nodes : DOMAIN writes[n] \cap InputKeys = {}
    /\ status = "returned" => SameInputs(result)

C6_Witness ==
    /\ status = "returned"
    /\ SameInputs(result)
    /\ writers["final_plan"] = {"consolidate", "human_approval"}
    /\ result["human_approved"] = TRUE

\* C7: the step in which a gather node runs leaves the state object the
\* node was given and the shared state as they were; the shared state
\* changes only in a step that merges the patches of finished nodes.
C7_GatherLeavesStateAlone ==
    [][/\ \A g \in Gather :
            (pc[g] = "running" /\ pc'[g] \in {"done", "failed"}) =>
                (input'[g] = input[g] /\ state' = state)
       /\ state' # state => \E n \in Nodes : pc[n] = "done" /\ Merged(n)']_vars

C7_Witness ==
    /\ pc["flight_search"] = "done"
    /\ writes["flight_search"] # EmptyDict
    /\ input["flight_search"] = travel_request(request)
    /\ state = travel_request(request)

\* C8: the patch a gather node returns has exactly one key, the node's own
\* result field, whose value has exactly data and analysis, the analysis
\* being the generated text.
C8_GatherPatchShape ==
    \A g \in Gather :
        pc[g] = "done" =>
            /\ DOMAIN writes[g] = {ResultKey(g)}
            /\ Populated(writes[g], ResultKey(g))

C8_Witness == \A g \in Gather : pc[g] = "done" /\ Populated(writes[g], ResultKey(g))

\* the gather node that owns a result field
Owner(k) == CHOOSE g \in Gather : ResultKey(g) = k

\* C9: a result field is written by its own gather node only, changes only
\* from empty to populated and never after that; final_plan is the only key
\* two nodes write, consolidate and human_approval, and human_approval is
\* invoked only after consolidate's patch is merged.
C9_SingleWriter ==
    /\ [](/\ \A k \in ResultKeys : writers[k] \subseteq {Owner(k)}
          /\ \A k \in StateKeys \ {"final_plan"} : Cardinality(writers[k]) <= 1
          /\ writers["final_plan"] \subseteq {"consolidate", "human_approval"}
          /\ runs["human_approval"] > 0 =>
                (Merged("consolidate") /\ "consolidate" \in writers["final_plan"]))
    /\ [][\A k \in ResultKeys :
            state'[k] # state[k] =>
                (state[k] = EmptyDict /\ Populated(state', k)
                 /\ writers'[k] = {Owner(k)} /\ writers[k] = {})]_vars

C9_Witness ==
    /\ \A k \in ResultKeys : writers[k] = {Owner(k)} /\ Populated(state, k)
    /\ writers["final_plan"] = {"consolidate", "human_approval"}
    /\ writers["human_approved"] = {"human_approval"}

\* C10: in a step that merges patches, every key of a merged patch has the
\* patch's value afterwards, every other key of the state has the value it
\* had before, and the state has no key besides these.
C10_MergeIsShallowUnion ==
    [][(\E n \in Nodes : pc[n] = "done" /\ Merged(n)') =>
          LET D == {n \in Nodes : pc[n] = "done" /\ Merged(n)'}
              patched == UNION {DOMAIN writes[n] : n \in D}
          IN  /\ DOMAIN state' = DOMAIN state \cup patched
              /\ \A n \in D : \A k \in DOMAIN writes[n] :
                    state'[k] = writes[n][k]
              /\ \A k \in DOMAIN state \ patched : state'[k] = state[k]]_vars

C10_Witness ==
    /\ Merged("human_approval")
    /\ hp.phase = "returned"
    /\ hp.confirms = 1
    /\ state["final_plan"] = hp.revised_plan
    /\ state["final_plan"] # input["human_approval"]["final_plan"]
    /\ state["flight_results"] = input["human_approval"]["flight_results"]

\* C11: merging a patch into a state twice gives the state that merging it
\* once gives, for every state and every patch.
C11_MergeIdempotent ==
    (unit.fn = "merge" /\ unit.merges >= 2) => unit.cur = unit.once

C11_Witness ==
    /\ unit.fn = "merge"
    /\ unit.merges = 2
    /\ unit.cur = unit.once
    /\ unit.once # unit.st
    /\ DOMAIN unit.patch # {}
    /\ DOMAIN unit.st \ DOMAIN unit.patch # {}
    /\ DOMAIN unit.st \cap DOMAIN unit.patch # {}

\* what the approval prompt was last answered with, lowered and stripped
Approved == hp.approval \in {"yes", "y"}
Rejected == hp.approval \in {"no", "n"}
Modified == hp.approval \in {"modify", "m"}

\* C12: when human_approval has returned on the answer yes (no), its patch
\* is exactly {human_approved: true} ({human_approved: false}); it made no
\* generation call and asked no confirm, and once the patch is merged
\* final_plan is still the plan written by consolidate and the execution
\* has returned.
C12_YesNoPatch ==
    (hp.phase = "returned" /\ (Approved \/ Rejected)) =>
        /\ genCalls["human_approval"] = 0
        /\ hp.confirms = 0
        /\ pc["human_approval"] \in {"done", "merged"}
        /\ pc["human_approval"] = "done" =>
              writes["human_approval"] = ("human_approved" :> Approved)
        /\ writers["final_plan"] = {"consolidate"}
        /\ state["final_plan"] = input["human_approval"]["final_plan"]
        /\ state["final_plan"] \in GenOutputs
        /\ pc["human_approval"] = "merged" =>
              /\ state["human_approved"] = Approved
              /\ status = "returned"
              /\ result = state

C12_Witness ==
    /\ hp.phase = "returned"
    /\ hp.approval = "n"
    /\ pc["human_approval"] = "merged"
    /\ state["human_approved"] = FALSE
    /\ hp.invalid = 0

\* C13: when human_approval has returned on the answer modify, it made one
\* generation call with original_plan the final_plan it was invoked with
\* and the stripped feedback, asked one confirm, and its patch is exactly
\* {final_plan: revised plan, human_approved: the confirm's answer},
\* whether the answer was yes or no; merged, both keys hold these values.
C13_ModifyPatch ==
    (hp.phase = "returned" /\ Modified) =>
        /\ genCalls["human_approval"] = 1
        /\ hp.confirms = 1
        /\ hp.feedback = "add more restaurants"
        /\ hp.vars = [original_plan |-> input["human_approval"]["final_plan"],
                      feedback |-> hp.feedback]
        /\ hp.revised_plan \in GenOutputs
        /\ pc["human_approval"] \in {"done", "merged"}
        /\ pc["human_approval"] = "done" =>
              /\ DOMAIN writes["human_approval"] = {"final_plan", "human_approved"}
              /\ writes["human_approval"]["final_plan"] = hp.revised_plan
              /\ writes["human_approval"]["human_approved"] = hp.final_approval
        /\ pc["human_approval"] = "merged" =>
              /\ state["final_plan"] = hp.revised_plan
              /\ state["human_approved"] = hp.final_approval
              /\ result = state

C13_Witness ==
    /\ hp.phase = "returned"
    /\ hp.approval = "m"
    /\ status = "returned"
    /\ ~hp.final_approval
    /\ result["final_plan"] = hp.revised_plan
    /\ result["final_plan"] # input["human_approval"]["final_plan"]
    /\ result["human_approved"] = FALSE

\* C14: a run of human_approval makes at most one revision call and asks
\* at most one confirm; once the revision is generated the node never asks
\* for a decision or for a revision again, and the confirm's answer ends it.
C14_SingleRevision ==
    /\ [](/\ runs["human_approval"] <= 1
          /\ genCalls["human_approval"] <= 1
          /\ hp.confirms <= 1)
    /\ [][/\ hp.phase \in {"confirming", "returned", "raised"} =>
                hp'.phase \notin {"awaiting", "revising"}
          /\ (hp.phase = "confirming" /\ hp' # hp) =>
                (hp'.phase = "returned" /\ pc'["human_approval"] = "done")]_vars

C14_Witness ==
    /\ hp.phase = "returned"
    /\ hp.confirms = 1
    /\ genCalls["human_approval"] = 1
    /\ ~hp.final_approval
    /\ pc["human_approval"] = "done"

\* C15: an answer outside yes, y, no, n, modify, m changes nothing but the
\* prompt count: the node has not failed, has returned no patch, the shared
\* state is as it was and the node is awaiting a decision again; as long
\* as it awaits a decision the prompt is open, no patch is pending and
\* human_approved and final_plan are what the node was invoked with.
C15_InvalidAnswerReprompts ==
    /\ [][(hp'.prompts = hp.prompts + 1
            /\ hp'.approval \notin {"yes", "y", "no", "n", "modify", "m"}) =>
                /\ pc' = pc /\ pc'["human_approval"] = "running"
                /\ writes' = writes
                /\ state' = state
                /\ genCalls' = genCalls
                /\ status' = "running"
                /\ hp'.phase = "awaiting"]_vars
    /\ []((pc["human_approval"] = "running" /\ hp.phase = "awaiting") =>
            /\ ENABLED HumanApprove("yes")
            /\ writes["human_approval"] = EmptyDict
            /\ state["human_approved"] = FALSE
            /\ state["final_plan"] = input["human_approval"]["final_plan"])

C15_Witness ==
    /\ hp.invalid = 2
    /\ hp.approval = "yes"
    /\ hp.prompts = 3
    /\ status = "returned"
    /\ result["human_approved"] = TRUE

\* C16: an execution that started from the driver's state with empty
\* results and has returned holds all eleven keys, the six results with
\* data and a non-empty analysis, a non-empty final_plan, and
\* human_approved true when the prompt was answered yes, false when no.
C16_EndToEnd ==
    status = "returned" =>
        /\ DOMAIN result = StateKeys
        /\ \A k \in ResultKeys : Populated(result, k)
        /\ result["final_plan"] \in GenOutputs
        /\ Approved => result["human_approved"] = TRUE
        /\ Rejected => result["human_approved"] = FALSE
        /\ \A n \in Nodes : runs[n] = 1 /\ ~genFailed[n]

C16_Witness ==
    /\ status = "returned"
    /\ hp.approval = "yes"
    /\ hp.prompts = 1
    /\ result["human_approved"] = TRUE
    /\ \A k \in ResultKeys : result[k]["analysis"] = "Mock analysis"
    /\ result["final_plan"] = "Mock analysis"

\* the nine variables of the consolidation prompt
ConsolidationVariables ==
    {"destination", "dates", "budget", "flights", "hotels", "events",
     "restaurants", "attractions", "social_places"}

\* consolidate_plan has been called on its own
ConsolidateCalled == unit.fn = "consolidate_plan" /\ unit.called

\* C17: consolidate_plan, called with a state whose six results are
\* populated, makes exactly one text-generation call, passes it the nine
\* variables destination, dates, budget, flights, hotels, events,
\* restaurants, attractions and social_places, the last six being the
\* analysis strings of the corresponding results, and when the call returns
\* it returns a patch whose only key is final_plan, holding the text.
C17_ConsolidateOnce ==
    (ConsolidateCalled /\ \A k \in ResultKeys : Populated(unit.st, k)) =>
        /\ unit.call.gens = 1
        /\ unit.call.searches = 0
        /\ DOMAIN unit.call.vars = ConsolidationVariables
        /\ unit.call.vars["destination"] = unit.st["destination"]
        /\ unit.call.vars["dates"] = unit.st["dates"]
        /\ unit.call.vars["budget"] = unit.st["budget"]
        /\ unit.call.vars["flights"] = unit.st["flight_results"]["analysis"]
        /\ unit.call.vars["hotels"] = unit.st["hotel_results"]["analysis"]
        /\ unit.call.vars["events"] = unit.st["events_results"]["analysis"]
        /\ unit.call.vars["restaurants"] = unit.st["restaurant_results"]["analysis"]
        /\ unit.call.vars["attractions"] = unit.st["attractions_results"]["analysis"]
        /\ unit.call.vars["social_places"] = unit.st["social_places_results"]["analysis"]
        /\ unit.call.arg = unit.st
        /\ unit.out \in GenOutputs =>
              /\ ~unit.call.raised
              /\ unit.call.ret = ("final_plan" :> unit.out)

C17_Witness ==
    /\ ConsolidateCalled
    /\ \A k \in ResultKeys : Populated(unit.st, k)
    /\ unit.st["flight_results"]["analysis"] # unit.st["hotel_results"]["analysis"]
    /\ unit.out = "Agent analysis"
    /\ unit.call.ret = ("final_plan" :> "Agent analysis")

\* the failure the error taxonomy calls MissingDependencyError: the lookup
\* of a predecessor's output raised
MissingDependencyError(call) == call.raised /\ call.error = "KeyError"

\* C18: consolidate_plan, called with a state in which at least one of the
\* six results has no analysis (as in the initial state main builds), fails
\* on the lookup of the missing analysis, makes no text-generation call and
\* returns no final_plan, whatever the generation call would have done.
C18_MissingAnalysisFails ==
    (ConsolidateCalled /\ \E k \in ResultKeys : ~HasAnalysis(unit.st, k)) =>
        /\ MissingDependencyError(unit.call)
        /\ unit.call.gens = 0
        /\ unit.call.vars = EmptyDict
        /\ unit.call.ret = EmptyDict
        /\ unit.call.arg = unit.st

C18_Witness ==
    /\ ConsolidateCalled
    /\ unit.st = travel_request(request)
    /\ unit.out \in GenOutputs
    /\ MissingDependencyError(unit.call)
    /\ unit.call.gens = 0

\* every text-generation call made so far has returned
GenerationReturned == \A n \in Nodes : ~genFailed[n]

\* the user is being asked for a decision
AwaitingDecision == hp.phase = "awaiting"

\* C19: invoke returns to its caller: when every node scheduled is
\* eventually run, every text-generation call returns and the user, once
\* asked, eventually gives a valid decision, the execution eventually ends
\* with each of the six gather nodes, consolidate and human_approval run
\* once, and the caller holds the final state.
C19_InvokeReturns ==
    ([]GenerationReturned /\ (AwaitingDecision ~> ~AwaitingDecision)) =>
        <>(/\ status = "returned"
           /\ \A n \in Nodes : runs[n] = 1 /\ Merged(n)
           /\ result = state
           /\ DOMAIN result = StateKeys)

C19_Witness ==
    /\ status = "returned"
    /\ GenerationReturned
    /\ hp.invalid = 1
    /\ Modified
    /\ \A n \in Nodes : runs[n] = 1
    /\ result = state

\* collect_user_travel_request has returned
Collected == cr.phase = 4

\* the prompts asked so far are for destination, then dates, then budget
AskedInOrder ==
    \A i, j \in 1..Len(cr.asked) :
        i < j =>
            \/ cr.asked[i] = cr.asked[j]
            \/ cr.asked[i] = "destination"
            \/ cr.asked[j] = "budget"

\* C20: collect_user_travel_request asks for destination, then dates, then
\* budget, asks again for a field as long as its answer is blank once
\* stripped, and returns the three stripped answers: each returned value is
\* non-empty, and the prompts asked number 3 plus the blank answers given.
C20_CollectRequest ==
    /\ cr.phase \in 1..4 => AskedInOrder
    /\ cr.phase \in 2..4 =>
          /\ strip(cr.destination) # ""
          /\ \A i \in 1..Len(cr.asked) : cr.asked[i] = "dates" => i > 1
    /\ cr.phase \in 3..4 => strip(cr.dates) # ""
    /\ cr.phase \in 1..3 => cr.ret = EmptyDict
    /\ Collected =>
          /\ DOMAIN cr.ret = {"destination", "dates", "budget"}
          /\ cr.ret["destination"] = strip(cr.destination)
          /\ cr.ret["dates"] = strip(cr.dates)
          /\ cr.ret["budget"] = strip(cr.budget)
          /\ \A k \in DOMAIN cr.ret : cr.ret[k] # ""
          /\ Len(cr.asked) = 3 + cr.blanks
          /\ \A f \in {"destination", "dates", "budget"} :
                \E i \in 1..Len(cr.asked) : cr.asked[i] = f

C20_Witness ==
    /\ Collected
    /\ cr.asked = <<"destination", "destination", "dates", "budget", "budget">>
    /\ cr.destination = " Barcelona "
    /\ cr.ret = [destination |-> "Barcelona", dates |-> "March 15-20, 2024",
                 budget |-> "$2000"]

\* C21: human_approval is invoked only after consolidate has returned and
\* its final_plan has been merged: the state it is invoked with holds the
\* plan consolidate returned, not the empty final_plan of the initial
\* state, and that plan is the original_plan passed to a revision.
C21_ApprovalSeesConsolidatedPlan ==
    /\ [](runs["human_approval"] > 0 =>
            /\ Merged("consolidate")
            /\ writers["final_plan"] \cap {"consolidate"} # {}
            /\ input["human_approval"]["final_plan"] \in GenOutputs
            /\ hp.vars # EmptyDict =>
                  hp.vars["original_plan"] = input["human_approval"]["final_plan"])
    /\ [][/\ (pc["consolidate"] = "done" /\ pc'["consolidate"] = "merged") =>
                state'["final_plan"] = writes["consolidate"]["final_plan"]
          /\ (pc["human_approval"] = "pending" /\ pc'["human_approval"] = "running") =>
                /\ Merged("consolidate")
                /\ input'["human_approval"]["final_plan"] = state["final_plan"]
          /\ (Merged("consolidate") /\ runs'["human_approval"] = 0) =>
                state'["final_plan"] = state["final_plan"]]_vars

C21_Witness ==
    /\ hp.phase = "confirming"
    /\ input["human_approval"]["final_plan"] = "Agent analysis"
    /\ hp.vars["original_plan"] = "Agent analysis"
    /\ hp.revised_plan = "Mock analysis"

\* the orders in which the six gather patches can be merged
GatherOrders ==
    {s \in [1..6 -> Gather] : \A i, j \in 1..6 : s[i] = s[j] => i = j}

\* the patches w, merged into st one after the other in the order s
RECURSIVE MergeInOrder(_, _, _, _)
MergeInOrder(st, w, s, i) ==
    IF i > Len(s) THEN st ELSE MergeInOrder(Merge(st, w[s[i]]), w, s, i + 1)

\* the patch gather node g returns on the initial state when its
\* generation call returns a
GatherPatch(g, a) == GatherAgent(g, travel_request(request), a).ret

\* the six gather nodes have all returned and none is merged yet
AllGatherDone == \A g \in Gather : pc[g] = "done"

\* C22: the six gather nodes need no order: however their runs interleave,
\* once all six have returned their patches can be merged in any order
\* with the same result, the merge makes consolidate eligible, and the
\* state with all six merged is determined by the request and the six
\* generation outputs alone.
C22_GatherOrderIrrelevant ==
    /\ [](AllGatherDone =>
            /\ ENABLED ApplyWrites
            /\ \A s \in GatherOrders :
                  MergeInOrder(state, writes, s, 1) = MergeAll(state, writes, Gather))
    /\ []((\A g \in Gather : Merged(g)) =>
            /\ pc["consolidate"] # "idle"
            /\ \A g \in Gather :
                  state[ResultKey(g)] =
                      GatherPatch(g, state[ResultKey(g)]["analysis"])[ResultKey(g)]
            /\ \A k \in InputKeys : state[k] = request[k])
    /\ [][AllGatherDone =>
             /\ state' = MergeAll(state, writes, Gather)
             /\ pc'["consolidate"] = "pending"
             /\ \A g \in Gather : Merged(g)']_vars

C22_Witness ==
    /\ \A g \in Gather : Merged(g)
    /\ pc["consolidate"] = "pending"
    /\ state["flight_results"]["analysis"] = "Mock analysis"
    /\ state["hotel_results"]["analysis"] = "Agent analysis"
    /\ state["attractions_results"]["analysis"] = "Mock analysis"

\* node n's patch is being merged in this step and holds key k
Writes(n, k) ==
    /\ pc[n] = "done"
    /\ pc'[n] = "merged"
    /\ k \in DOMAIN writes[n]

\* C23: human_approved is false from the initial state until the patch of
\* human_approval is merged; only human_approval writes it, once, and with
\* that merge the execution has ended: from then on no node runs and the
\* state does not change.
C23_ApprovedWrittenOnceLast ==
    /\ [](/\ writers["human_approved"] \subseteq {"human_approval"}
          /\ writers["human_approved"] = {} => state["human_approved"] = FALSE
          /\ status = "returned" => writers["human_approved"] = {"human_approval"}
          /\ writers["human_approved"] # {} =>
                /\ status = "returned"
                /\ result = state
                /\ \A n \in Nodes : Merged(n))
    /\ [][/\ \A n \in Nodes :
                Writes(n, "human_approved") =>
                    /\ n = "human_approval"
                    /\ writers["human_approved"] = {}
                    /\ status' = "returned"
          /\ state'["human_approved"] # state["human_approved"] =>
                Writes("human_approval", "human_approved")
          /\ writers["human_approved"] # {} =>
                /\ state' = state
                /\ runs' = runs
                /\ pc' = pc]_vars

C23_Witness ==
    /\ writers["human_approved"] = {"human_approval"}
    /\ state["human_approved"] = FALSE
    /\ writers["final_plan"] = {"consolidate", "human_approval"}
    /\ status = "returned"

\* a gather agent has been called on the two states
PairCalled == unit.fn = "gather_pair" /\ unit.called

\* C24: what a gather agent does depends only on destination, dates and
\* budget and on what its generation call returns: called on two states
\* that hold the same request and differ in results, final_plan or
\* human_approved, it makes the same search call, passes the same variables
\* to text generation and returns the same patch; the variables hold
\* request fields and its own search results only.
C24_GatherReadsRequestOnly ==
    PairCalled =>
        /\ unit.call1.vars = unit.call2.vars
        /\ unit.call1.searches = unit.call2.searches
        /\ unit.call1.gens = unit.call2.gens
        /\ unit.call1.raised = unit.call2.raised
        /\ unit.call1.ret = unit.call2.ret
        /\ DOMAIN unit.call2.vars \subseteq InputKeys \cup {"results"}
        /\ \A k \in DOMAIN unit.call2.vars \cap InputKeys :
              unit.call2.vars[k] = unit.st2[k]
        /\ unit.call2.arg = unit.st2

C24_Witness ==
    /\ PairCalled
    /\ unit.n = "restaurant_search"
    /\ unit.st2["hotel_results"] = ResultOf("Mock analysis")
    /\ unit.st2["restaurant_results"] = ResultOf("Mock analysis")
    /\ unit.st2["human_approved"] = TRUE
    /\ unit.out = "Agent analysis"
    /\ unit.call2.ret["restaurant_results"]["analysis"] = "Agent analysis"

\* the nodes whose patches the step merges
Merging == {n \in Nodes : pc[n] = "done" /\ pc'[n] = "merged"}

\* the value key k has once the patches of the nodes in D are all applied
AfterPatches(k, D) ==
    IF \E n \in D : k \in DOMAIN writes[n]
    THEN writes[CHOOSE n \in D : k \in DOMAIN writes[n]][k]
    ELSE state[k]

\* C25: the shared state changes only in a merge, and a merge applies the
\* whole patch of every node of the step at once: a node is invoked with
\* the state as a merge left it, and after a modify the state holds either
\* the plan and approval it held before human_approval returned or the
\* revised plan together with the approval of the revision, never the
\* revised plan with human_approved not yet written.
C25_MergeAtomic ==
    /\ [][/\ state' # state =>
                /\ Merging # {}
                /\ Merging = {n \in Nodes : pc[n] = "done"}
                /\ \A k \in StateKeys : state'[k] = AfterPatches(k, Merging)
          /\ \A n \in Nodes :
                (pc[n] = "pending" /\ pc'[n] = "running") =>
                    /\ input'[n] = state
                    /\ state' = state]_vars
    /\ []((Modified /\ hp.phase \in {"confirming", "returned"}) =>
            \/ /\ state = input["human_approval"]
               /\ writers["human_approved"] = {}
            \/ /\ state["final_plan"] = hp.revised_plan
               /\ state["human_approved"] = hp.final_approval
               /\ writers["human_approved"] = {"human_approval"}
               /\ writers["final_plan"] = {"consolidate", "human_approval"})

C25_Witness ==
    /\ Modified
    /\ hp.phase = "returned"
    /\ hp.final_approval
    /\ input["human_approval"]["final_plan"] = "Mock analysis"
    /\ state["final_plan"] = "Agent analysis"
    /\ state["human_approved"] = TRUE

\* the gather nodes that call a search provider
DataBacked == {"flight_search", "hotel_search", "events_search",
               "restaurant_search"}

\* node n has been invoked and its call is over
Called(n) == pc[n] \in {"done", "failed", "merged"}

RECURSIVE SumCalls(_, _)
SumCalls(f, S) ==
    IF S = {} THEN 0
    ELSE LET n == CHOOSE m \in S : TRUE IN f[n] + SumCalls(f, S \ {n})

C27_AtMostMaxTurnsPrompts ==
    AiRunning => unit.prompts <= max_turns

\* the step is one pass of the loop body on a non-blank answer
TurnTaken ==
    /\ AiRunning
    /\ unit.phase = "asking"
    /\ unit'.prompts = unit.prompts + 1
    /\ unit'.blanks = unit.blanks

\* the positions of the values of ext that are not strings
IllTyped(ext) == {i \in 1..Len(ext.items) : ext.items[i][2].t = "num"}

\* the extraction call raised, or its output holds no JSON object, or a
\* value of the object is not a string
ExtractionFailed(ext) ==
    \/ ext.kind \in {"generation_error", "no_json", "bad_json"}
    \/ ext.kind = "json" /\ IllTyped(ext) # {}

\* the positions of ext before its first ill-typed value that hold a
\* non-blank string for key k
StoredBeforeFailure(ext, k) ==
    {i \in 1..Len(ext.items) :
        /\ \A j \in IllTyped(ext) : i < j
        /\ ext.items[i][1] = k
        /\ ext.items[i][2].t = "str"
        /\ strip(ext.items[i][2].s) # ""}

\* C28 as stated: when the extraction of a turn fails, the response call of
\* that turn is still made, with the fields as they were before the turn.
C28_FailureKeepsPriorValues ==
    [][(TurnTaken /\ ExtractionFailed(unit'.ext)) =>
          /\ unit'.responses = unit.responses + 1
          /\ unit'.vars =
                ContextVars(unit.collected_info, unit'.vars["user_input"])]_vars

\* C28 as amended: when the extraction of a turn fails, the response call
\* of that turn is still made; the fields are as they were before the turn,
\* except that the non-blank strings preceding the first ill-typed value of
\* a JSON object have been stored, stripped.
C28_FailureSwallowed ==
    [][(TurnTaken /\ ExtractionFailed(unit'.ext)) =>
          /\ unit'.responses = unit.responses + 1
          /\ unit'.history > unit.history
          /\ \A k \in InputKeys :
                LET S == StoredBeforeFailure(unit'.ext, k)
                IN  unit'.vars[k] =
                        IF S = {}
                        THEN OrNotProvided(unit.collected_info[k])
                        ELSE LET i == CHOOSE i \in S : \A j \in S : j <= i
                             IN  strip(unit'.ext.items[i][2].s)]_vars

C28_Witness ==
    /\ AiRunning
    /\ unit.phase = "asking"
    /\ unit.ext.kind = "json"
    /\ IllTyped(unit.ext) = {2}
    /\ unit.turn_count = 2
    /\ unit.responses = 2
    /\ unit.vars["destination"] = "Barcelona"
    /\ unit.vars["budget"] = "Not provided"

\* the user answered yes, or modify and then confirmed the revised plan
UserApproved ==
    /\ hp.phase = "returned"
    /\ \/ Approved
       \/ Modified /\ hp.confirms = 1 /\ hp.final_approval

\* C29: human_approved is true, in the shared state and in the state
\* invoke returns, only when the user answered yes or answered modify and
\* confirmed the revised plan; after a no, a declined revision, invalid
\* answers alone or a failure it is false.
C29_ApprovedOnlyByUser ==
    /\ state["human_approved"] = TRUE => UserApproved /\ status = "returned"
    /\ status = "returned" => (result["human_approved"] = TRUE <=> UserApproved)
    /\ (Rejected \/ (Modified /\ hp.phase = "returned" /\ ~hp.final_approval)) =>
          state["human_approved"] = FALSE
    /\ hp.phase \in {"none", "awaiting", "revising", "confirming", "raised"} =>
          state["human_approved"] = FALSE
    /\ status = "failed" => result = EmptyDict /\ state["human_approved"] = FALSE

C29_Witness ==
    /\ status = "returned"
    /\ Modified
    /\ hp.invalid = 1
    /\ ~hp.final_approval
    /\ result["human_approved"] = FALSE
    /\ result["final_plan"] = hp.revised_plan

\* the revision call of human_approval raised
RevisionFailed == genFailed["human_approval"]

\* C30: when the revision call fails, human_approval raises: it returns no
\* patch and asks for no confirmation, final_plan stays the plan of
\* consolidate, human_approved stays false, and invoke raises to its caller
\* without returning a state.
C30_RevisionFailurePropagates ==
    /\ [](RevisionFailed =>
            /\ hp.phase = "raised"
            /\ pc["human_approval"] = "failed"
            /\ writes["human_approval"] = EmptyDict
            /\ hp.confirms = 0
            /\ hp.revised_plan = ""
            /\ state["final_plan"] = input["human_approval"]["final_plan"]
            /\ state["final_plan"] \in GenOutputs
            /\ writers["final_plan"] = {"consolidate"}
            /\ state["human_approved"] = FALSE
            /\ writers["human_approved"] = {}
            /\ status # "returned"
            /\ result = EmptyDict)
    /\ (RevisionFailed ~> status = "failed")

C30_Witness ==
    /\ RevisionFailed
    /\ status = "failed"
    /\ hp.feedback = "add more restaurants"
    /\ genCalls["human_approval"] = 1
    /\ state["final_plan"] = "Agent analysis"

====
